---- MODULE Spec2Model ----
(***************************************************************************)
(* Model of src/main.py: the order/catalog analytics script.  The script   *)
(* is one sequential run over two loaded tables; every numbered block of   *)
(* the script is one action, and pc is the position of the run.            *)
(*                                                                         *)
(* Text values (Product, make, model, trim, report values) are sequences   *)
(* of one-character strings, so that concatenation, the date pattern and   *)
(* the sort order of group keys are computed character by character.       *)
(* Floating point values are exact fractions [num, den]; den = 0 is NaN.   *)
(***************************************************************************)
EXTENDS Integers, Sequences, FiniteSets, TLC

VARIABLES pc, error, done,
          found, orders_csv, datasetNew_xlsx,
          orders_df, cars_df,
          non_canceled_orders, avg_revenue_per_user,
          canceled_orders, median_returns_per_user,
          top_product, top_product_revenue,
          orders_with_make, top_makes, group_cancellation_rates,
          correlation, p_value,
          results, analytics_results_csv

vars == <<pc, error, done, found, orders_csv, datasetNew_xlsx, orders_df, cars_df,
          non_canceled_orders, avg_revenue_per_user,
          canceled_orders, median_returns_per_user,
          top_product, top_product_revenue,
          orders_with_make, top_makes, group_cancellation_rates,
          correlation, p_value, results, analytics_results_csv>>

(***************************************************************************)
(* Bounds of the explored inputs.                                          *)
(***************************************************************************)
MaxOrders == 2
MaxCars == 2
MaxTail == 1

(***************************************************************************)
(* Text.                                                                   *)
(***************************************************************************)
\* A missing cell (pandas NaN / None) of a text column.
NaN == <<"NaN">>

\* The characters used, in code point order (str comparison of Python).
Ascii == <<" ", "%", "(", ")", "-", ".",
           "0", "1", "2", "3", "4", "5", "6", "7", "8", "9",
           "A", "B", "C", "D", "E", "F", "L", "R", "S", "T", "U", "X", "Z",
           "a", "c", "d", "e", "k", "l", "m", "n", "o", "r", "t", "v", "w", "y">>

Ord(c) == CHOOSE i \in 1..Len(Ascii) : Ascii[i] = c

IsDigit(c) == c \in {"0", "1", "2", "3", "4", "5", "6", "7", "8", "9"}

\* str < str of Python: lexicographic by code point, a proper prefix first.
RECURSIVE StrLess(_, _)
StrLess(a, b) ==
    IF b = <<>> THEN FALSE
    ELSE IF a = <<>> THEN TRUE
    ELSE IF Head(a) # Head(b) THEN Ord(Head(a)) < Ord(Head(b))
    ELSE StrLess(Tail(a), Tail(b))

\* astype(str): text stays, a missing cell becomes the text "nan".
AsStr(v) == IF v = NaN THEN <<"n", "a", "n">> ELSE v

\* re.search(r'\d{4}-\d{2}-\d{2}', s) anchored at position i.
DateAt(s, i) ==
    /\ i + 9 <= Len(s)
    /\ \A k \in {0, 1, 2, 3, 5, 6, 8, 9} : IsDigit(s[i + k])
    /\ s[i + 4] = "-"
    /\ s[i + 7] = "-"

\* Variant: the pattern tried at the start of the cell only (str.match).
MatchesDateAtStart(v) ==
    IF v = NaN THEN FALSE
    ELSE DateAt(v, 1)

\* Series.str.contains(r'\d{4}-\d{2}-\d{2}', na=False) on one cell.
ContainsDate(v) ==
    IF v = NaN THEN FALSE
    ELSE \E i \in 1..Len(v) : DateAt(v, i)

(***************************************************************************)
(* Numbers.                                                                *)
(***************************************************************************)
Rat(n, d) == [num |-> n, den |-> d]
NaNf == Rat(0, 0)
IsNaNf(q) == q.den = 0

DigitChars == <<"0", "1", "2", "3", "4", "5", "6", "7", "8", "9">>

RECURSIVE IntToStr(_)
IntToStr(n) ==
    IF n < 10 THEN <<DigitChars[n + 1]>>
    ELSE IntToStr(n \div 10) \o <<DigitChars[(n % 10) + 1]>>

\* round(x * 10^k) for x = q.num / q.den >= 0, ties to even.
RoundScaled(q, scale) ==
    LET n == q.num * scale
        f == n \div q.den
        r2 == 2 * (n % q.den)
    IN  IF r2 > q.den \/ (r2 = q.den /\ f % 2 = 1) THEN f + 1 ELSE f

\* f"{q:.2f}" for q >= 0 or NaN.
Fmt2(q) ==
    IF IsNaNf(q) THEN <<"n", "a", "n">>
    ELSE LET h == RoundScaled(q, 100)
         IN  IntToStr(h \div 100) \o <<".">>
             \o <<DigitChars[((h % 100) \div 10) + 1], DigitChars[(h % 10) + 1]>>

(***************************************************************************)
(* Sequences and tables.  A table is [columns, rows]: the column names and *)
(* the rows in index order; a row is a record of cells.                    *)
(***************************************************************************)
Range(s) == {s[i] : i \in 1..Len(s)}

RECURSIVE SumSeq(_)
SumSeq(s) == IF s = <<>> THEN 0 ELSE Head(s) + SumSeq(Tail(s))

RECURSIVE SeqsUpTo(_, _)
SeqsUpTo(S, n) ==
    IF n = 0 THEN {<<>>}
    ELSE LET shorter == SeqsUpTo(S, n - 1)
         IN  shorter \cup {Append(s, x) : s \in {t \in shorter : Len(t) = n - 1}, x \in S}

Table(cols, rws) == [columns |-> cols, rows |-> rws]
(***************************************************************************)
(* The files.  orders.csv rows carry UserID, TotalPrice, Status, Product,   *)
(* Discount; datasetNew.xlsx rows carry make, model, trim (the cells of    *)
(* body are never read, only the column's presence is).  found holds the   *)
(* files that are there and readable.                                      *)
(***************************************************************************)
AllFiles == {"orders.csv", "datasetNew.xlsx"}

Toyota == <<"T", "o", "y", "o", "t", "a">>
Corolla == <<"C", "o", "r", "o", "l", "l", "a">>
LE == <<"L", "E">>
ToyotaCorollaLE == <<"T", "o", "y", "o", "t", "a", " ", "C", "o", "r", "o", "l", "l", "a", " ", "L", "E">>
UnknownCarX == <<"U", "n", "k", "n", "o", "w", "n", " ", "C", "a", "r", " ", "X">>
Land == <<"L", "a", "n", "d">>
LandRover == <<"L", "a", "n", "d", " ", "R", "o", "v", "e", "r">>
RoverD == <<"R", "o", "v", "e", "r", " ", "D">>
LandRoverDS == <<"L", "a", "n", "d", " ", "R", "o", "v", "e", "r", " ", "D", " ", "S">>
NanCorollaLE == <<"n", "a", "n", " ", "C", "o", "r", "o", "l", "l", "a", " ", "L", "E">>
IsoDate == <<"2", "0", "2", "4", "-", "0", "1", "-", "1", "5">>
TextWithDate == <<"A", " ", "2", "0", "2", "4", "-", "0", "1", "-", "1", "5">>
ShortDate == <<"2", "0", "2", "4", "-", "1", "-", "1", "5">>

OrderColumns == {"UserID", "TotalPrice", "Status", "Product", "Discount"}
CarColumns == {"make", "model", "trim", "body"}

Order(u, price, status, product, discount) ==
    [UserID |-> u, TotalPrice |-> price, Status |-> status,
     Product |-> product, Discount |-> discount]

Car(mk, mdl, tr) == [make |-> mk, model |-> mdl, trim |-> tr]

Input(ocols, orows, ccols, crows) ==
    [found |-> AllFiles, orders |-> Table(ocols, orows), cars |-> Table(ccols, crows)]

ExampleOrders ==
    << Order("U1", 100, "Paid", ToyotaCorollaLE, 0),
       Order("U1", 50, "Canceled_Error", ToyotaCorollaLE, 10),
       Order("U2", 200, "Delivered", UnknownCarX, 0) >>

ExampleCars == << Car(Toyota, Corolla, LE) >>

\* Files whose header lacks a column, or carries the stray column '472'.
OrderColumnSets ==
    {OrderColumns, OrderColumns \cup {"472"}} \cup {OrderColumns \ {c} : c \in OrderColumns}

CarColumnSets == {CarColumns} \cup {CarColumns \ {c} : c \in CarColumns}

InputsSchema ==
    {Input(oc, ExampleOrders, cc, ExampleCars) : oc \in OrderColumnSets, cc \in CarColumnSets}

\* A file that is missing or unreadable.
InputsMissing ==
    {[Input(OrderColumns, ExampleOrders, CarColumns, ExampleCars) EXCEPT !.found = f] :
        f \in (SUBSET AllFiles) \ {AllFiles}}

\* Orders that differ in user, price, status and product, over one catalog row.
PriceStatusDiscount ==
    {<<100, "Paid", 0>>, <<200, "Delivered", 0>>, <<50, "Canceled_Error", 10>>,
     <<30, "Canceled_Mismatch", 0>>, <<70, "Pending", 5>>}

MetricOrders ==
    {Order(u, t[1], t[2], p, t[3]) :
        u \in {"U1", "U2"}, t \in PriceStatusDiscount, p \in {ToyotaCorollaLE, UnknownCarX}}

InputsMetrics ==
    {Input(OrderColumns, o, CarColumns, ExampleCars) : o \in SeqsUpTo(MetricOrders, MaxOrders)}

\* Catalogs with repeated composite keys and missing makes.
JoinOrders ==
    {Order("U1", 100, "Paid", p, 0) :
        p \in {LandRoverDS, NanCorollaLE, UnknownCarX}}

JoinCars ==
    {Car(Land, RoverD, <<"S">>), Car(LandRover, <<"D">>, <<"S">>), Car(NaN, Corolla, LE)}

InputsJoin ==
    {Input(OrderColumns, o, CarColumns, c) :
        o \in SeqsUpTo(JoinOrders, MaxOrders), c \in SeqsUpTo(JoinCars, MaxCars)}

\* Orders whose Product is a date, holds a date, is missing, or is plain text.
CleanOrders ==
    {Order("U1", 100, t[1], p, t[2]) :
        t \in {<<"Paid", 0>>, <<"Canceled_Error", 10>>},
        p \in {IsoDate, TextWithDate, ShortDate, NaN, <<"A">>}}

InputsClean ==
    {Input(OrderColumns, o, CarColumns, ExampleCars) : o \in SeqsUpTo(CleanOrders, MaxOrders)}

\* More brands than the ranking keeps: six catalog makes and unmatched orders.
BrandKey(mk) == mk \o <<" ", "m", " ", "t">>

BrandCars ==
    << Car(<<"A">>, <<"m">>, <<"t">>), Car(<<"B">>, <<"m">>, <<"t">>),
       Car(<<"C">>, <<"m">>, <<"t">>), Car(<<"D">>, <<"m">>, <<"t">>),
       Car(<<"E">>, <<"m">>, <<"t">>), Car(<<"F">>, <<"m">>, <<"t">>) >>

BrandBase ==
    << Order("U1", 100, "Paid", BrandKey(<<"A">>), 0),
       Order("U1", 100, "Paid", BrandKey(<<"B">>), 0),
       Order("U2", 100, "Paid", BrandKey(<<"C">>), 0),
       Order("U2", 100, "Paid", BrandKey(<<"D">>), 0),
       Order("U2", 100, "Paid", BrandKey(<<"E">>), 0) >>

BrandTail ==
    {Order("U1", 50, "Canceled_Error", p, 10) :
        p \in {BrandKey(<<"A">>), BrandKey(<<"F">>), UnknownCarX}}

InputsBrands ==
    {Input(OrderColumns, BrandBase \o t, CarColumns, BrandCars) :
        t \in SeqsUpTo(BrandTail, MaxTail)}

Inputs ==
    InputsMissing \cup InputsSchema \cup InputsMetrics \cup InputsJoin \cup InputsClean
    \cup InputsBrands
(***************************************************************************)
(* The pipeline's computations.                                            *)
(***************************************************************************)
RequiredOrderColumns == {"UserID", "TotalPrice", "Status", "Product", "Discount"}
RequiredCarColumns == {"make", "body"}

RevenueStatuses == {"Paid", "Delivered"}
CanceledStatuses == {"Canceled_Mismatch", "Canceled_Error"}

Unknown == <<"U", "n", "k", "n", "o", "w", "n">>
TopN == 5

\* The exceptions that end a run: .str on a column that holds no text (line
\* 37), idxmax of an empty series (line 54), a missing catalog column (lines
\* 60-62), pointbiserialr on fewer than two rows (line 81).
AccessorError == "AttributeError: Can only use .str accessor with string values"
ArgmaxError == "ValueError: attempt to get argmax of an empty sequence"
ColumnKeyError == "KeyError"
LengthError == "ValueError: x and y must have length at least 2"

\* df.drop(columns=['472']) when the column is there.
DropColumn472(df) ==
    IF "472" \in df.columns THEN Table(df.columns \ {"472"}, df.rows) ELSE df

\* [col for col in required if col not in df.columns]
MissingColumns(required, df) == {col \in required : col \notin df.columns}

\* Whether df['Product'].str exists: read_csv gives a column whose cells are
\* all missing the dtype float64, which has no .str; a column with a text
\* cell, or with no cell at all, has dtype object.
ProductIsText(df) ==
    \/ df.rows = <<>>
    \/ \E i \in 1..Len(df.rows) : df.rows[i].Product # NaN

\* df[~df['Product'].str.contains(date pattern, na=False)]
DateFilter(df) ==
    Table(df.columns, SelectSeq(df.rows, LAMBDA r : ~ContainsDate(r.Product)))

\* df[df['Status'].isin(statuses)]
StatusIsIn(df, statuses) ==
    Table(df.columns, SelectSeq(df.rows, LAMBDA r : r.Status \in statuses))

TotalPriceSum(rws) == SumSeq([i \in 1..Len(rws) |-> rws[i].TotalPrice])

\* df.groupby('UserID')['TotalPrice'].sum(): one entry per user that has a row.
GroupByUserSum(df) ==
    [u \in {r.UserID : r \in Range(df.rows)} |->
        TotalPriceSum(SelectSeq(df.rows, LAMBDA r : r.UserID = u))]

\* df.groupby('Product')['TotalPrice'].sum(): rows with a missing key are left out.
GroupByProductSum(df) ==
    [k \in {r.Product : r \in Range(df.rows)} \ {NaN} |->
        TotalPriceSum(SelectSeq(df.rows, LAMBDA r : r.Product = k))]

\* The values of a series in ascending order.
RECURSIVE SortedValues(_)
SortedValues(series) ==
    IF DOMAIN series = {} THEN <<>>
    ELSE LET u == CHOOSE u \in DOMAIN series :
                      \A v \in DOMAIN series : series[u] <= series[v]
         IN  <<series[u]>> \o SortedValues([v \in DOMAIN series \ {u} |-> series[v]])

\* Variant: an empty series averaged to 0.
MeanOrZero(series) ==
    LET n == Cardinality(DOMAIN series)
    IN  IF n = 0 THEN Rat(0, 1) ELSE Rat(SumSeq(SortedValues(series)), n)

\* Series.mean(): NaN for an empty series.
Mean(series) ==
    LET n == Cardinality(DOMAIN series)
    IN  IF n = 0 THEN NaNf ELSE Rat(SumSeq(SortedValues(series)), n)

\* Variant: the lower middle value for an even count.
MedianLow(series) ==
    LET n == Cardinality(DOMAIN series)
        s == SortedValues(series)
    IN  IF n = 0 THEN NaNf ELSE Rat(s[(n + 1) \div 2], 1)

\* Series.median(): NaN for an empty series, the mean of the two middle
\* values for an even count.
Median(series) ==
    LET n == Cardinality(DOMAIN series)
        s == SortedValues(series)
    IN  IF n = 0 THEN NaNf
        ELSE IF n % 2 = 1 THEN Rat(s[(n + 1) \div 2], 1)
        ELSE Rat(s[n \div 2] + s[(n \div 2) + 1], 2)

\* An absent median is reported as 0 (line 49).
NanToZero(q) == IF IsNaNf(q) THEN Rat(0, 1) ELSE q

\* The index of a groupby result: its keys in ascending order.
RECURSIVE SortedKeys(_)
SortedKeys(S) ==
    IF S = {} THEN <<>>
    ELSE LET k == CHOOSE k \in S : \A j \in S \ {k} : StrLess(k, j)
         IN  <<k>> \o SortedKeys(S \ {k})

SeriesMax(series) ==
    CHOOSE m \in {series[k] : k \in DOMAIN series} : \A k \in DOMAIN series : series[k] <= m

\* Variant: the first key that holds the minimum (idxmin).
IdxMin(series) ==
    LET index == SortedKeys(DOMAIN series)
        first == CHOOSE i \in 1..Len(index) :
                     /\ \A k \in DOMAIN series : series[index[i]] <= series[k]
                     /\ \A j \in 1..(i - 1) : \E k \in DOMAIN series : series[k] < series[index[j]]
    IN  index[first]

\* Series.idxmax(): the first key, in index order, that holds the maximum.
IdxMax(series) ==
    LET index == SortedKeys(DOMAIN series)
        first == CHOOSE i \in 1..Len(index) :
                     /\ series[index[i]] = SeriesMax(series)
                     /\ \A j \in 1..(i - 1) : series[index[j]] # SeriesMax(series)
    IN  index[first]

\* make + ' ' + model + ' ' + trim, each cell through astype(str).
CompositeKey(c) ==
    AsStr(c.make) \o <<" ">> \o AsStr(c.model) \o <<" ">> \o AsStr(c.trim)

\* orders_df['Product'] = orders_df['Product'].astype(str)
ProductAsStr(df) ==
    Table(df.columns,
          [i \in 1..Len(df.rows) |-> [df.rows[i] EXCEPT !.Product = AsStr(@)]])

\* cars_df['Product'] = ...
WithProduct(df) ==
    Table(df.columns \cup {"Product"},
          [i \in 1..Len(df.rows) |->
              [make |-> df.rows[i].make, model |-> df.rows[i].model,
               trim |-> df.rows[i].trim, Product |-> CompositeKey(df.rows[i])]])

Joined(o, mk) ==
    [UserID |-> o.UserID, TotalPrice |-> o.TotalPrice, Status |-> o.Status,
     Product |-> o.Product, Discount |-> o.Discount, make |-> mk]

\* The rows one left row yields: one per right row with its key, in the
\* right table's order, or one with a missing make when there is none.
MatchesOf(o, right) ==
    LET m == SelectSeq(right, LAMBDA c : c.Product = o.Product)
    IN  IF m = <<>> THEN <<Joined(o, NaN)>>
        ELSE [i \in 1..Len(m) |-> Joined(o, m[i].make)]

\* left.merge(right[['Product', 'make']], on='Product', how='left')
RECURSIVE LeftMergeRows(_, _)
LeftMergeRows(left, right) ==
    IF left = <<>> THEN <<>>
    ELSE MatchesOf(Head(left), right) \o LeftMergeRows(Tail(left), right)

\* df['make'].fillna('Unknown')
FillNaMake(rws) ==
    [i \in 1..Len(rws) |-> [rws[i] EXCEPT !.make = IF @ = NaN THEN Unknown ELSE @]]

MergeMakeTable(left, right) ==
    Table(left.columns \cup {"make"}, FillNaMake(LeftMergeRows(left.rows, right.rows)))

\* How often each make occurs in the joined rows.
MakeCounts(df) ==
    [m \in {r.make : r \in Range(df.rows)} |->
        Len(SelectSeq(df.rows, LAMBDA r : r.make = m))]

\* value_counts(): the makes by descending count.  The sort of pandas does
\* not fix the order of makes with equal counts, so every such order is a
\* possible result.
RECURSIVE ValueCountsOrders(_)
ValueCountsOrders(counts) ==
    IF DOMAIN counts = {} THEN {<<>>}
    ELSE LET most == {m \in DOMAIN counts : \A k \in DOMAIN counts : counts[k] <= counts[m]}
         IN  UNION {{<<m>> \o s :
                        s \in ValueCountsOrders([k \in DOMAIN counts \ {m} |-> counts[k]])} :
                    m \in most}

\* .head(n)
HeadN(s, n) == SubSeq(s, 1, IF Len(s) < n THEN Len(s) ELSE n)

MakeOrders(df, mk) == SelectSeq(df.rows, LAMBDA r : r.make = mk)

CanceledCount(df, mk) ==
    Len(SelectSeq(MakeOrders(df, mk), LAMBDA r : r.Status \in CanceledStatuses))

\* (canceled_orders / total_orders) * 100 if total_orders > 0 else 0
CancellationRate(df, mk) ==
    LET total_orders == Len(MakeOrders(df, mk))
    IN  IF total_orders > 0 THEN Rat(100 * CanceledCount(df, mk), total_orders)
        ELSE Rat(0, 1)

\* orders_df['IsError'] = (orders_df['Status'] == 'Canceled_Error').astype(int)
WithIsError(df) ==
    Table(df.columns \cup {"IsError"},
          [i \in 1..Len(df.rows) |->
              [IsError |-> IF df.rows[i].Status = "Canceled_Error" THEN 1 ELSE 0]
              @@ df.rows[i]])

\* pointbiserialr(x, y) needs at least two observations.
TooShort(df) == Len(df.rows) < 2

\* The coefficient r = cov / sqrt(varx * vary), kept as its three integer
\* parts (each scaled by n^2); it is NaN when x or y is constant.
PointBiserialR(df) ==
    LET n == Len(df.rows)
        x == [i \in 1..n |-> df.rows[i].IsError]
        y == [i \in 1..n |-> df.rows[i].Discount]
        sx == SumSeq(x)
        sy == SumSeq(y)
    IN  [cov |-> n * SumSeq([i \in 1..n |-> x[i] * y[i]]) - sx * sy,
         varx |-> n * SumSeq([i \in 1..n |-> x[i] * x[i]]) - sx * sx,
         vary |-> n * SumSeq([i \in 1..n |-> y[i] * y[i]]) - sy * sy]

\* The two-sided p-value is a function of the coefficient and the sample size.
PValue(r, n) == [r |-> r, n |-> n]

\* f"{v:.4f}": the text is determined by the value.
Fmt4(v) == <<".4f", v>>
(***************************************************************************)
(* The report.  The labels of the script are Russian text; each is written *)
(* here as its English reading, one label per distinct source string.      *)
(***************************************************************************)
AvgLabel == <<"Average revenue per user (BYN)">>
MedianLabel == <<"Median refund per user (BYN)">>
TopProductLabel == <<"Top revenue product">>
TopRevenueLabel == <<"Revenue of the product (BYN)">>
CorrelationLabel == <<"Correlation coefficient (error orders and discount)">>
PValueLabel == <<"p-value">>

\* f"... {make} (%)"
RateLabel(mk) == <<"Cancellation rate for ", mk, " (%)">>

Row(metric, value) == [Metric |-> metric, Value |-> value]

\* Lines 91-104: the four leading rows.
HeadRows(avg, median, product, revenue) ==
    << Row(AvgLabel, Fmt2(avg)), Row(MedianLabel, Fmt2(median)),
       Row(TopProductLabel, product), Row(TopRevenueLabel, Fmt2(revenue)) >>

\* Lines 105-108: one row per entry of group_cancellation_rates, in its order.
RateRows(rates) ==
    [i \in 1..Len(rates) |-> Row(RateLabel(rates[i].make), Fmt2(rates[i].rate))]

\* Lines 109-112: the two closing rows.
CorrelationRows(r, p) ==
    << Row(CorrelationLabel, Fmt4(r)), Row(PValueLabel, Fmt4(p)) >>

\* Variant: the correlation rows concatenated before the rate rows.
ResultsTableCorrelationFirst(avg, median, product, revenue, rates, r, p) ==
    HeadRows(avg, median, product, revenue) \o CorrelationRows(r, p) \o RateRows(rates)

\* pd.concat([...], ignore_index=True), twice.
ResultsTable(avg, median, product, revenue, rates, r, p) ==
    HeadRows(avg, median, product, revenue) \o RateRows(rates) \o CorrelationRows(r, p)

(***************************************************************************)
(* State.                                                                  *)
(***************************************************************************)
NoTable == Table({}, <<>>)

InitWith(inputs) ==
    /\ \E inp \in inputs :
        /\ found = inp.found
        /\ orders_csv = inp.orders
        /\ datasetNew_xlsx = inp.cars
    /\ orders_df = NoTable
    /\ cars_df = NoTable
    /\ pc = "load"
    /\ error = "none"
    /\ done = {}
    /\ non_canceled_orders = NoTable
    /\ avg_revenue_per_user = NaNf
    /\ canceled_orders = NoTable
    /\ median_returns_per_user = NaNf
    /\ top_product = NaN
    /\ top_product_revenue = NaNf
    /\ orders_with_make = NoTable
    /\ top_makes = <<>>
    /\ group_cancellation_rates = <<>>
    /\ correlation = [cov |-> 0, varx |-> 0, vary |-> 0]
    /\ p_value = PValue([cov |-> 0, varx |-> 0, vary |-> 0], 0)
    /\ results = <<>>
    /\ analytics_results_csv = <<>>

Init == InitWith(Inputs)

files == <<found, orders_csv, datasetNew_xlsx>>
revenueVars == <<non_canceled_orders, avg_revenue_per_user>>
refundVars == <<median_returns_per_user>>
topVars == <<top_product, top_product_revenue>>
joinVars == <<cars_df, orders_with_make>>
rateVars == <<top_makes, group_cancellation_rates>>
corrVars == <<correlation, p_value>>
reportVars == <<results, analytics_results_csv>>

(***************************************************************************)
(* The blocks of the script, without their place in the run.               *)
(***************************************************************************)
\* Lines 40-43.
DoAvgRevenue ==
    /\ non_canceled_orders' = StatusIsIn(orders_df, RevenueStatuses)
    /\ avg_revenue_per_user' = Mean(GroupByUserSum(non_canceled_orders'))
    /\ error' = "none"
    /\ UNCHANGED <<files, orders_df, canceled_orders, refundVars, topVars, joinVars,
                   rateVars, corrVars, reportVars>>

\* Lines 46-50.
DoMedianReturns ==
    /\ canceled_orders' = StatusIsIn(orders_df, CanceledStatuses)
    /\ median_returns_per_user' = NanToZero(Median(GroupByUserSum(canceled_orders')))
    /\ error' = "none"
    /\ UNCHANGED <<files, orders_df, revenueVars, topVars, joinVars, rateVars,
                   corrVars, reportVars>>

\* Lines 53-56: idxmax of an empty series raises ValueError.
DoTopProduct ==
    LET product_revenue == GroupByProductSum(non_canceled_orders)
    IN  /\ IF DOMAIN product_revenue = {}
           THEN /\ error' = ArgmaxError
                /\ UNCHANGED topVars
           ELSE /\ error' = "none"
                /\ top_product' = IdxMax(product_revenue)
                /\ top_product_revenue' = Rat(SeriesMax(product_revenue), 1)
        /\ UNCHANGED <<files, orders_df, revenueVars, canceled_orders, refundVars,
                       joinVars, rateVars, corrVars, reportVars>>

\* Lines 59-64: line 59 rewrites orders_df before lines 60-62 read the
\* catalog columns, so a KeyError there leaves orders_df rewritten.
DoMergeMake ==
    /\ orders_df' = ProductAsStr(orders_df)
    /\ IF {"make", "model", "trim"} \subseteq cars_df.columns
       THEN /\ error' = "none"
            /\ cars_df' = WithProduct(cars_df)
            /\ orders_with_make' = MergeMakeTable(orders_df', cars_df')
       ELSE /\ error' = ColumnKeyError
            /\ UNCHANGED joinVars
    /\ UNCHANGED <<files, revenueVars, canceled_orders, refundVars, topVars, rateVars,
                   corrVars, reportVars>>

\* Lines 67-77: the loop reuses the name canceled_orders for a count.
DoCancellationRates ==
    /\ top_makes' \in {HeadN(s, TopN) : s \in ValueCountsOrders(MakeCounts(orders_with_make))}
    /\ group_cancellation_rates' =
          [i \in 1..Len(top_makes') |->
              [make |-> top_makes'[i],
               rate |-> CancellationRate(orders_with_make, top_makes'[i])]]
    /\ canceled_orders' =
          IF top_makes' = <<>> THEN canceled_orders
          ELSE CanceledCount(orders_with_make, top_makes'[Len(top_makes')])
    /\ error' = "none"
    /\ UNCHANGED <<files, orders_df, revenueVars, refundVars, topVars, joinVars,
                   corrVars, reportVars>>

\* Lines 80-88: the IsError column is added before pointbiserialr can raise.
DoCorrelation ==
    /\ orders_df' = WithIsError(orders_df)
    /\ IF TooShort(orders_df')
       THEN /\ error' = LengthError
            /\ UNCHANGED corrVars
       ELSE /\ error' = "none"
            /\ correlation' = PointBiserialR(orders_df')
            /\ p_value' = PValue(correlation', Len(orders_df'.rows))
    /\ UNCHANGED <<files, revenueVars, canceled_orders, refundVars, topVars, joinVars,
                   rateVars, reportVars>>

\* After a block: on to the next one, or the run ends with the exception.
Goto(next) == pc' = IF error' = "none" THEN next ELSE "raised"

(***************************************************************************)
(* The run, block by block.                                                *)
(***************************************************************************)
\* Lines 7-15: read_csv, then read_excel; exit() when either fails.
LoadFiles ==
    /\ pc = "load"
    /\ orders_df' = IF "orders.csv" \in found THEN orders_csv ELSE orders_df
    /\ cars_df' = IF found = AllFiles THEN datasetNew_xlsx ELSE cars_df
    /\ pc' = IF found = AllFiles THEN "drop472" ELSE "exit"
    /\ UNCHANGED <<error, done, files, revenueVars, canceled_orders, refundVars, topVars,
                   orders_with_make, rateVars, corrVars, reportVars>>

\* Lines 18-19.
Drop472 ==
    /\ pc = "drop472"
    /\ orders_df' = DropColumn472(orders_df)
    /\ pc' = "check_orders"
    /\ UNCHANGED <<error, done, files, revenueVars, canceled_orders, refundVars, topVars,
                   joinVars, rateVars, corrVars, reportVars>>

\* Lines 22-27: exit() when a required column is missing.
CheckOrderColumns ==
    /\ pc = "check_orders"
    /\ pc' = IF MissingColumns(RequiredOrderColumns, orders_df) # {} THEN "exit"
             ELSE "check_cars"
    /\ UNCHANGED <<error, done, files, orders_df, revenueVars, canceled_orders, refundVars,
                   topVars, joinVars, rateVars, corrVars, reportVars>>

\* Lines 30-34.
CheckCarColumns ==
    /\ pc = "check_cars"
    /\ pc' = IF MissingColumns(RequiredCarColumns, cars_df) # {} THEN "exit"
             ELSE "clean"
    /\ UNCHANGED <<error, done, files, orders_df, revenueVars, canceled_orders, refundVars,
                   topVars, joinVars, rateVars, corrVars, reportVars>>

\* Line 37.
DropDateProducts ==
    /\ pc = "clean"
    /\ IF ProductIsText(orders_df)
       THEN /\ orders_df' = DateFilter(orders_df)
            /\ error' = "none"
            /\ pc' = "avg"
       ELSE /\ error' = AccessorError
            /\ pc' = "raised"
            /\ UNCHANGED orders_df
    /\ UNCHANGED <<done, files, revenueVars, canceled_orders, refundVars, topVars,
                   joinVars, rateVars, corrVars, reportVars>>

AvgRevenue == pc = "avg" /\ DoAvgRevenue /\ Goto("median") /\ UNCHANGED done

MedianReturns == pc = "median" /\ DoMedianReturns /\ Goto("top") /\ UNCHANGED done

TopProduct == pc = "top" /\ DoTopProduct /\ Goto("merge") /\ UNCHANGED done

MergeMake == pc = "merge" /\ DoMergeMake /\ Goto("rates") /\ UNCHANGED done

CancellationRates == pc = "rates" /\ DoCancellationRates /\ Goto("corr") /\ UNCHANGED done

Correlation == pc = "corr" /\ DoCorrelation /\ Goto("results") /\ UNCHANGED done

\* Lines 91-112.
BuildResults ==
    /\ pc = "results"
    /\ results' = ResultsTable(avg_revenue_per_user, median_returns_per_user, top_product,
                               top_product_revenue, group_cancellation_rates,
                               correlation, p_value)
    /\ pc' = "save"
    /\ UNCHANGED <<error, done, files, orders_df, revenueVars, canceled_orders, refundVars,
                   topVars, joinVars, rateVars, corrVars, analytics_results_csv>>

\* Line 113.
SaveResults ==
    /\ pc = "save"
    /\ analytics_results_csv' = results
    /\ pc' = "done"
    /\ UNCHANGED <<error, done, files, orders_df, revenueVars, canceled_orders, refundVars,
                   topVars, joinVars, rateVars, corrVars, results>>

Next ==
    \/ LoadFiles
    \/ Drop472
    \/ CheckOrderColumns
    \/ CheckCarColumns
    \/ DropDateProducts
    \/ AvgRevenue
    \/ MedianReturns
    \/ TopProduct
    \/ MergeMake
    \/ CancellationRates
    \/ Correlation
    \/ BuildResults
    \/ SaveResults

Spec == Init /\ [][Next]_vars
(***************************************************************************)
(* The same blocks run in any order their data allows: the top product     *)
(* reads non_canceled_orders (set by the average block) and the rates read *)
(* orders_with_make (set by the merge); nothing else orders them.          *)
(***************************************************************************)
Calculators == {"avg", "median", "top", "merge", "rates", "corr"}

Proceed(block) ==
    /\ done' = done \cup {block}
    /\ pc' = IF error' # "none" THEN "raised"
             ELSE IF done' = Calculators THEN "results"
             ELSE "avg"

AnyAvgRevenue ==
    pc = "avg" /\ "avg" \notin done /\ DoAvgRevenue /\ Proceed("avg")

AnyMedianReturns ==
    pc = "avg" /\ "median" \notin done /\ DoMedianReturns /\ Proceed("median")

AnyTopProduct ==
    pc = "avg" /\ "top" \notin done /\ "avg" \in done /\ DoTopProduct /\ Proceed("top")

AnyMergeMake ==
    pc = "avg" /\ "merge" \notin done /\ DoMergeMake /\ Proceed("merge")

AnyCancellationRates ==
    pc = "avg" /\ "rates" \notin done /\ "merge" \in done /\ DoCancellationRates
    /\ Proceed("rates")

AnyCorrelation ==
    pc = "avg" /\ "corr" \notin done /\ DoCorrelation /\ Proceed("corr")

InitAnyOrder == InitWith(InputsMissing \cup InputsSchema \cup InputsClean)

NextAnyOrder ==
    \/ LoadFiles
    \/ Drop472
    \/ CheckOrderColumns
    \/ CheckCarColumns
    \/ DropDateProducts
    \/ AnyAvgRevenue
    \/ AnyMedianReturns
    \/ AnyTopProduct
    \/ AnyMergeMake
    \/ AnyCancellationRates
    \/ AnyCorrelation
    \/ BuildResults
    \/ SaveResults

SpecAnyOrder == InitAnyOrder /\ [][NextAnyOrder]_vars
(***************************************************************************)
(* Properties.  They are stated over the loaded files and the program's    *)
(* variables, with definitions of their own for what the words mean.       *)
(***************************************************************************)
\* Four digits, dash, two digits, dash, two digits, anywhere in the text.
DateShape == <<"d", "d", "d", "d", "-", "d", "d", "-", "d", "d">>

HasDateShape(v) ==
    /\ v # NaN
    /\ \E i \in 1..(Len(v) - 9) :
          \A k \in 1..10 :
              IF DateShape[k] = "d" THEN IsDigit(v[i + k - 1]) ELSE v[i + k - 1] = "-"

\* The cleaned order set, read off the loaded file.
CleanedInput == SelectSeq(orders_csv.rows, LAMBDA r : ~HasDateShape(r.Product))

RevenueInput == SelectSeq(CleanedInput, LAMBDA r : r.Status \in {"Paid", "Delivered"})

RefundInput ==
    SelectSeq(CleanedInput, LAMBDA r : r.Status \in {"Canceled_Mismatch", "Canceled_Error"})

PriceTotal(rws) == SumSeq([i \in 1..Len(rws) |-> rws[i].TotalPrice])

ProductRevenueOf(p) == PriceTotal(SelectSeq(RevenueInput, LAMBDA r : r.Product = p))

UserRefundOf(u) == PriceTotal(SelectSeq(RefundInput, LAMBDA r : r.UserID = u))

RevenueUsers == {r.UserID : r \in Range(RevenueInput)}
RefundUsers == {r.UserID : r \in Range(RefundInput)}

\* Where the run stands.
RaisedAfterCleaning == pc = "raised" /\ error # AccessorError
CleanerActed ==
    \/ pc \in {"avg", "median", "top", "merge", "rates", "corr", "results", "save", "done"}
    \/ RaisedAfterCleaning
AvgActed ==
    \/ pc \in {"median", "top", "merge", "rates", "corr", "results", "save", "done"}
    \/ RaisedAfterCleaning
MedianActed ==
    \/ pc \in {"top", "merge", "rates", "corr", "results", "save", "done"}
    \/ RaisedAfterCleaning
TopActed ==
    \/ pc \in {"merge", "rates", "corr", "results", "save", "done"}
    \/ RaisedAfterCleaning
MergeActed ==
    \/ pc \in {"rates", "corr", "results", "save", "done"}
    \/ pc = "raised" /\ error = LengthError
RatesActed ==
    \/ pc \in {"corr", "results", "save", "done"}
    \/ pc = "raised" /\ error = LengthError
NoReport == results = <<>> /\ analytics_results_csv = <<>>

\* C1: the join puts out exactly as many rows as the cleaned order set has,
\* whatever the catalog, repeated composite keys included.
C1_JoinKeepsRowCount ==
    MergeActed => Len(orders_with_make.rows) = Len(CleanedInput)

\* The make of the first catalog record, in input order, whose composite key
\* is the given Product; "Unknown" when there is none or it has no make.
FirstCatalogMake(product) ==
    LET hits == {j \in 1..Len(datasetNew_xlsx.rows) :
                    AsStr(datasetNew_xlsx.rows[j].make) \o <<" ">>
                    \o AsStr(datasetNew_xlsx.rows[j].model) \o <<" ">>
                    \o AsStr(datasetNew_xlsx.rows[j].trim) = product}
    IN  IF hits = {} THEN Unknown
        ELSE LET first == CHOOSE j \in hits : \A k \in hits : j <= k
             IN  IF datasetNew_xlsx.rows[first].make = NaN THEN Unknown
                 ELSE datasetNew_xlsx.rows[first].make

\* C2: after the join every row's make is the make of the first catalog
\* record (in input order) whose composite key is the row's Product, or
\* "Unknown" when no record has that key.
C2_MakeOfFirstMatchOrUnknown ==
    MergeActed =>
        \A i \in 1..Len(orders_with_make.rows) :
            orders_with_make.rows[i].make = FirstCatalogMake(orders_with_make.rows[i].Product)

RequiredFieldMissing ==
    \/ ~({"UserID", "TotalPrice", "Status", "Product", "Discount"} \subseteq orders_csv.columns)
    \/ ~({"make", "model", "trim", "body"} \subseteq datasetNew_xlsx.columns)

\* C3: when a required field is absent from the orders (UserID, TotalPrice,
\* Status, Product, Discount) or from the catalog (make, model, trim, body),
\* the run ends at schema validation: no cleaning, join or metric happens
\* and no report is produced.
C3_MissingFieldEndsAtValidation ==
    RequiredFieldMissing =>
        /\ pc \in {"load", "drop472", "check_orders", "check_cars", "exit"}
        /\ NoReport

\* The top product step raised, which ended the run without a report.
TopFailed == pc = "raised" /\ error = ArgmaxError /\ NoReport

\* The step returned the largest per-product revenue and a product that has it.
TopIsMaximum ==
    /\ ~(pc = "raised" /\ error = ArgmaxError)
    /\ top_product_revenue.den = 1
    /\ \A r \in Range(RevenueInput) :
          r.Product # NaN => ProductRevenueOf(r.Product) <= top_product_revenue.num
    /\ \E r \in Range(RevenueInput) : r.Product = top_product
    /\ ProductRevenueOf(top_product) = top_product_revenue.num

\* C4 as claimed: with no Paid/Delivered row in the cleaned set the top
\* product step fails and the run ends without a report; otherwise the
\* returned revenue is the largest per-product sum of Paid/Delivered
\* TotalPrice and the returned product attains it.
C4_FailsIffNoRevenueRow ==
    TopActed => IF RevenueInput = <<>> THEN TopFailed ELSE TopIsMaximum

\* C4 amended: the step fails, and the run ends without a report, exactly
\* when the cleaned set has no Paid/Delivered row with a Product present;
\* otherwise the returned revenue is the largest per-product sum over the
\* products present and the returned product attains it.
C4_FailsIffNoRevenueRowWithProduct ==
    TopActed =>
        IF \A r \in Range(RevenueInput) : r.Product = NaN THEN TopFailed ELSE TopIsMaximum

\* C4 witness: the step failed on a cleaned set whose Paid/Delivered rows
\* all lack a Product.
C4_FailsOnRevenueRowsWithoutProduct ==
    /\ TopFailed
    /\ RevenueInput # <<>>
    /\ IsNaNf(top_product_revenue)

NanText == <<"n", "a", "n">>

\* C5 as claimed: with no Paid/Delivered order the average is NaN and the
\* finished run reports it as such in the result.
C5_NanAverageIsReported ==
    (AvgActed /\ RevenueInput = <<>> /\ pc \in {"done", "raised"}) =>
        /\ IsNaNf(avg_revenue_per_user)
        /\ analytics_results_csv # <<>>
        /\ analytics_results_csv[1] = [Metric |-> AvgLabel, Value |-> NanText]

\* C5 amended: with no Paid/Delivered order the average is NaN (no
\* exception, no number put in its place) and with such an order it is the
\* mean of the per-user sums; the NaN reaches no report, because the run
\* then ends at the top product step.
C5_NanAverageAndNoReport ==
    AvgActed =>
        IF RevenueInput = <<>>
        THEN /\ IsNaNf(avg_revenue_per_user)
             /\ NoReport
             /\ pc \in {"median", "top", "raised"}
             /\ pc = "raised" => error = ArgmaxError
        ELSE /\ avg_revenue_per_user.den = Cardinality(RevenueUsers)
             /\ avg_revenue_per_user.num = PriceTotal(RevenueInput)

\* C5 witness: a run over orders none of which is Paid/Delivered has ended
\* with the average NaN and no report.
C5_RunEndedWithNanAverage ==
    /\ pc = "raised"
    /\ error = ArgmaxError
    /\ CleanedInput # <<>>
    /\ RevenueInput = <<>>
    /\ IsNaNf(avg_revenue_per_user)
    /\ NoReport

\* The user's refund has rank k (1 is the smallest) among the users' refunds.
HasRank(u, k) ==
    /\ Cardinality({v \in RefundUsers : UserRefundOf(v) < UserRefundOf(u)}) < k
    /\ k <= Cardinality({v \in RefundUsers : UserRefundOf(v) <= UserRefundOf(u)})

\* q is the middle refund, or the mean of the two middle ones.
IsMedianRefund(q) ==
    LET n == Cardinality(RefundUsers)
    IN  \E lo, hi \in RefundUsers :
            /\ HasRank(lo, (n + 1) \div 2)
            /\ HasRank(hi, (n \div 2) + 1)
            /\ q.den > 0
            /\ 2 * q.num = (UserRefundOf(lo) + UserRefundOf(hi)) * q.den

\* C6: the median refund is exactly 0 when the cleaned set has no
\* Canceled_Mismatch/Canceled_Error order; otherwise it is the median, over
\* the users with such an order, of the user's summed TotalPrice over those
\* orders.  The orders {U1: 100 Paid, U1: 50 Canceled_Error, U2: 200
\* Delivered} give median refund 50 and average revenue 150.
C6_MedianRefund ==
    MedianActed =>
        /\ IF RefundInput = <<>> THEN median_returns_per_user = [num |-> 0, den |-> 1]
           ELSE IsMedianRefund(median_returns_per_user)
        /\ orders_csv.rows = ExampleOrders =>
              /\ median_returns_per_user = [num |-> 50, den |-> 1]
              /\ avg_revenue_per_user = [num |-> 300, den |-> 2]

\* C6 witness: the run over the example orders has finished with median
\* refund 50.
C6_ExampleRun ==
    /\ pc = "done"
    /\ orders_csv.rows = ExampleOrders
    /\ RefundUsers = {"U1"}
    /\ median_returns_per_user.num = 50

\* The first joined row with the make.
FirstSeen(mk) ==
    CHOOSE i \in 1..Len(orders_with_make.rows) :
        /\ orders_with_make.rows[i].make = mk
        /\ \A j \in 1..(i - 1) : orders_with_make.rows[j].make # mk

BrandCount(mk) == Len(SelectSeq(orders_with_make.rows, LAMBDA r : r.make = mk))

RanksBefore(a, b) ==
    \/ BrandCount(a) > BrandCount(b)
    \/ BrandCount(a) = BrandCount(b) /\ FirstSeen(a) < FirstSeen(b)

JoinedMakes == {r.make : r \in Range(orders_with_make.rows)}

ReportedMakes == {group_cancellation_rates[i].make : i \in 1..Len(group_cancellation_rates)}

\* C7: rates are reported for at most five brands, exactly the most frequent
\* makes of the joined set (by count descending, equal counts in first-seen
\* order); every rate is in [0, 100]; the reported brands' order counts sum
\* to at most the number of orders.
C7_TopFiveBrandRates ==
    RatesActed =>
        /\ Len(group_cancellation_rates) <= 5
        /\ Len(group_cancellation_rates) =
              IF Cardinality(JoinedMakes) < 5 THEN Cardinality(JoinedMakes) ELSE 5
        /\ ReportedMakes \subseteq JoinedMakes
        /\ \A i, j \in 1..Len(group_cancellation_rates) :
              i < j => RanksBefore(group_cancellation_rates[i].make,
                                   group_cancellation_rates[j].make)
        /\ \A a \in ReportedMakes : \A b \in JoinedMakes \ ReportedMakes : RanksBefore(a, b)
        /\ \A i \in 1..Len(group_cancellation_rates) :
              /\ group_cancellation_rates[i].rate.den > 0
              /\ 0 <= group_cancellation_rates[i].rate.num
              /\ group_cancellation_rates[i].rate.num <= 100 * group_cancellation_rates[i].rate.den
        /\ SumSeq([i \in 1..Len(group_cancellation_rates) |->
                      BrandCount(group_cancellation_rates[i].make)]) <= Len(CleanedInput)

\* The positions, in the loaded file, of the orders without a date in Product.
KeptIndices == {i \in 1..Len(orders_csv.rows) : ~HasDateShape(orders_csv.rows[i].Product)}

NthKept(k) == CHOOSE i \in KeptIndices : Cardinality({j \in KeptIndices : j <= i}) = k

ReportInOrder(report) ==
    LET k == Len(top_makes)
    IN  /\ 0 <= k /\ k <= 5
        /\ Len(report) = 6 + k
        /\ report[1] = [Metric |-> AvgLabel, Value |-> Fmt2(avg_revenue_per_user)]
        /\ report[2] = [Metric |-> MedianLabel, Value |-> Fmt2(median_returns_per_user)]
        /\ report[3] = [Metric |-> TopProductLabel, Value |-> top_product]
        /\ report[4] = [Metric |-> TopRevenueLabel, Value |-> Fmt2(top_product_revenue)]
        /\ \A i \in 1..k :
              /\ report[4 + i].Metric = <<"Cancellation rate for ", top_makes[i], " (%)">>
              /\ group_cancellation_rates[i].make = top_makes[i]
              /\ report[4 + i].Value = Fmt2(group_cancellation_rates[i].rate)
        /\ report[5 + k].Metric = CorrelationLabel
        /\ report[6 + k].Metric = PValueLabel
        /\ \A i, j \in 1..Len(report) : i # j => report[i].Metric # report[j].Metric

ProductsPresent == {r.Product : r \in Range(RevenueInput)} \ {NaN}

\* C10: the calculators are independent: whatever the order in which they
\* and the key reconciliation run, every metric has the value the run in
\* program order gives it (the top product of a finished run is the first
\* product, in key order, with the largest revenue of the cleaned orders).
C10_SameMetricsInAnyOrder ==
    pc \in {"results", "save", "done"} =>
        /\ avg_revenue_per_user = [num |-> PriceTotal(RevenueInput),
                                   den |-> Cardinality(RevenueUsers)]
        /\ IF RefundInput = <<>> THEN median_returns_per_user = [num |-> 0, den |-> 1]
           ELSE IsMedianRefund(median_returns_per_user)
        /\ top_product \in ProductsPresent
        /\ top_product_revenue = [num |-> ProductRevenueOf(top_product), den |-> 1]
        /\ \A p \in ProductsPresent :
              \/ ProductRevenueOf(p) < ProductRevenueOf(top_product)
              \/ ProductRevenueOf(p) = ProductRevenueOf(top_product)
                 /\ (p = top_product \/ StrLess(top_product, p))
====
